---------------------------- MODULE Spec2Model ----------------------------
(***************************************************************************)
(* A model of two pieces of the relay service:                             *)
(*                                                                         *)
(*   relay-pii/src/compiledconfig.rs                                       *)
(*     CompiledPiiConfig::new, collect_rules, get_rule, RuleRef and        *)
(*     CompiledPiiConfig::force_compile.  The recursion of collect_rules   *)
(*     is modelled with an explicit call stack, one frame per invocation.  *)
(*                                                                         *)
(*   relay-server/src/extractors/forwarded_for.rs                          *)
(*     ForwardedFor::get_forwarded_for_ip and from_request_parts.          *)
(***************************************************************************)
EXTENDS Naturals, Sequences, FiniteSets, TLC

VARIABLES
    config,        \* the PiiConfig being compiled: applications and rules
    pc,            \* "new" | "compiled" | "validated" | "overflow" | "idle"
    sel,           \* index of the selector the driver loop is at (0: none yet)
    app_idx,       \* index of the next top-level rule id of that selector
    rule_set,      \* the BTreeSet<RuleRef> of the selector being compiled
    via,           \* history: rule id -> ids of the call path that inserted it
    stack,         \* call stack of collect_rules, innermost frame first
    applications,  \* CompiledPiiConfig.applications
    cursor,        \* force_compile: position in the flattened rule sequence
    result,        \* force_compile: its Result
    header_map,    \* the request's HeaderMap
    peer_addr,     \* ConnectInfo's peer ip as a string, empty without one
    forwarded_ip,  \* what get_forwarded_for_ip returned
    forwarded,     \* the ForwardedFor value extracted
    fpc            \* "request" | "extracted" | "idle"

pii_vars == <<config, pc, sel, app_idx, rule_set, via, stack, applications,
              cursor, result>>
fwd_vars == <<header_map, peer_addr, forwarded_ip, forwarded, fpc>>
vars == <<config, pc, sel, app_idx, rule_set, via, stack, applications,
          cursor, result, header_map, peer_addr, forwarded_ip, forwarded, fpc>>

--------------------------------------------------------------------------
(* Bounds of the model. *)

\* Longest sub-rule list of a Multiple rule.
MaxSubRules == 2
\* Longest HeaderValue, in bytes.
MaxValueLen == 2

--------------------------------------------------------------------------
(* Data: RuleType, Redaction, RuleSpec, RuleRef. *)

None == <<>>
Some(x) == <<x>>

\* Rule ids in ascending order of String::cmp (bytewise: '@' < 'a' < 'b').
IdOrder == <<"@email", "a", "b">>
RuleIds == {IdOrder[i] : i \in 1..Len(IdOrder)}

\* Redaction: Default defers to the context, the others are concrete.
Redactions == {"Default", "Mask", "Remove"}

\* Patterns and whether the regex engine compiles them.
ValidPatterns == {"[0-9]+"}
InvalidPatterns == {"(", "[a"}

\* RuleType as one record shape: kind, and the payload the kind carries
\* (rules and hide_inner for Multiple and Alias, pattern for Pattern and
\* RedactPair's key_pattern).
Ty(kind, rules, hide_inner, pattern) ==
    [kind |-> kind, rules |-> rules, hide_inner |-> hide_inner, pattern |-> pattern]
Detector(kind) == Ty(kind, <<>>, FALSE, "")
Pattern(p) == Ty("Pattern", <<>>, FALSE, p)
RedactPair(p) == Ty("RedactPair", <<>>, FALSE, p)
Multiple(rules, hide_inner) == Ty("Multiple", rules, hide_inner, "")
Alias(rule, hide_inner) == Ty("Alias", <<rule>>, hide_inner, "")
Unknown == Ty("Unknown", <<>>, FALSE, "")

RuleSpec(ty, redaction) == [ty |-> ty, redaction |-> redaction]

IsWrapper(ty) == ty.kind \in {"Multiple", "Alias"}
\* The match of collect_rules without its arm for Unknown.
IsTerminalOrUnknown(ty) == ty.kind \notin {"Multiple", "Alias"}
IsTerminal(ty) == ty.kind \notin {"Multiple", "Alias", "Unknown"}

\* The built-in rule table.
BUILTIN_RULES_MAP == ("@email" :> RuleSpec(Detector("Email"), "Default"))

\* RuleRef::new
RuleRefNew(id, spec) ==
    [id |-> id, origin |-> id, ty |-> spec.ty, redaction |-> spec.redaction]

\* for_parent with the Default test left out: the parent's redaction
\* always replaces the rule's own.
for_parent_always(self, parent) ==
    [id |-> self.id, origin |-> parent.origin, ty |-> self.ty,
     redaction |-> parent.redaction]

\* for_parent with the test on the wrong side: a concrete redaction of the
\* rule itself is kept, the parent's fills in for Default only.
for_parent_keep_own(self, parent) ==
    [id |-> self.id, origin |-> parent.origin, ty |-> self.ty,
     redaction |-> IF self.redaction = "Default"
                   THEN parent.redaction
                   ELSE self.redaction]

\* for_parent taking the parent's id, not its origin.
for_parent_parent_id(self, parent) ==
    [id |-> self.id, origin |-> parent.id, ty |-> self.ty,
     redaction |-> IF parent.redaction = "Default"
                   THEN self.redaction
                   ELSE parent.redaction]

\* RuleRef::for_parent
for_parent(self, parent) ==
    [id |-> self.id,
     origin |-> parent.origin,
     ty |-> self.ty,
     redaction |-> IF parent.redaction = "Default"
                   THEN self.redaction
                   ELSE parent.redaction]

\* Equality as #[derive(PartialEq)] would give it: on every field.
RuleRefEqDerived(a, b) == a = b

\* impl PartialEq / Ord for RuleRef: identity is the id alone.
RuleRefEq(a, b) == a.id = b.id

\* Position of an id in String order.
IdRank(id) == CHOOSE i \in 1..Len(IdOrder) : IdOrder[i] = id
RuleRefLess(a, b) == IdRank(a.id) < IdRank(b.id)

\* Membership by value, not by id.
ContainsByValue(rules, rule) == rule \in rules

\* BTreeSet::contains and BTreeSet::insert under that identity: insert
\* keeps the element already present.
Contains(rules, rule) == \E x \in rules : RuleRefEq(x, rule)
BTreeInsert(rules, rule) == IF Contains(rules, rule) THEN rules ELSE rules \cup {rule}

\* BTreeSet::iter: the elements in ascending order.
RECURSIVE Iter(_)
Iter(rules) ==
    IF rules = {} THEN <<>>
    ELSE LET m == CHOOSE x \in rules : \A y \in rules : ~RuleRefLess(y, x)
         IN <<m>> \o Iter(rules \ {m})

\* get_rule with the tables consulted in the other order.
get_rule_builtin_first(cfg, id) ==
    IF id \in DOMAIN BUILTIN_RULES_MAP
    THEN Some(RuleRefNew(id, BUILTIN_RULES_MAP[id]))
    ELSE IF id \in DOMAIN cfg.rules
         THEN Some(RuleRefNew(id, cfg.rules[id]))
         ELSE None

\* get_rule: the policy's own table first, the built-in table second.
get_rule(cfg, id) ==
    IF id \in DOMAIN cfg.rules
    THEN Some(RuleRefNew(id, cfg.rules[id]))
    ELSE IF id \in DOMAIN BUILTIN_RULES_MAP
         THEN Some(RuleRefNew(id, BUILTIN_RULES_MAP[id]))
         ELSE None

\* collect_rules inserting every rule it resolves, wrappers included.
CollectedAll(rules, rule) == BTreeInsert(rules, rule)

\* The match of collect_rules as it acts on the accumulator: only a
\* terminal rule is inserted.
Collected(rules, rule) ==
    IF IsTerminal(rule.ty) THEN BTreeInsert(rules, rule) ELSE rules

\* Pattern::compiled: Ok, or the regex engine's error for the pattern.
Ok == [ok |-> TRUE, pattern |-> ""]
Err(p) == [ok |-> FALSE, pattern |-> p]
PatternCompiled(p) == IF p \in ValidPatterns THEN Ok ELSE Err(p)

\* force_compile without its arm for RedactPair.
ForceCompilePatternOnly(rule) ==
    IF rule.ty.kind = "Pattern" THEN PatternCompiled(rule.ty.pattern) ELSE Ok

\* One iteration of force_compile's loop body: the match on rule.ty.
ForceCompileRule(rule) ==
    CASE rule.ty.kind = "Pattern" -> PatternCompiled(rule.ty.pattern)
      [] rule.ty.kind = "RedactPair" -> PatternCompiled(rule.ty.pattern)
      [] OTHER -> Ok

\* applications.iter().flat_map(|(_, rules)| rules.iter())
RECURSIVE FlatRules(_)
FlatRules(apps) ==
    IF apps = <<>> THEN <<>>
    ELSE Iter(Head(apps).rules) \o FlatRules(Tail(apps))

--------------------------------------------------------------------------
(* The policies compiled: Init draws config from Policies. *)

Absent == Ty("Absent", <<>>, FALSE, "")

\* Sub-rule lists of a Multiple rule.
SubRuleLists == UNION {[1..n -> RuleIds] : n \in 0..MaxSubRules}

WrapperSpecs ==
    {RuleSpec(Alias(r, h), red) : r \in RuleIds, h \in BOOLEAN, red \in Redactions}
    \cup {RuleSpec(Multiple(s, h), red) :
             s \in SubRuleLists, h \in BOOLEAN, red \in Redactions}

\* What the policy's rule table may hold for each id it can define; a
\* specification of type Absent stands for no entry.
SpecsOf(id) ==
    CASE id = "a" ->
           WrapperSpecs
           \cup {RuleSpec(Absent, "Default"), RuleSpec(Unknown, "Mask"),
                 RuleSpec(Pattern("("), "Default"),
                 RuleSpec(RedactPair("[0-9]+"), "Mask")}
      [] id = "b" ->
           {RuleSpec(Alias("@email", h), red) : h \in BOOLEAN, red \in Redactions}
           \cup {RuleSpec(Absent, "Default"), RuleSpec(Unknown, "Default"),
                 RuleSpec(Pattern("[a"), "Remove"),
                 RuleSpec(Pattern("[0-9]+"), "Default"),
                 RuleSpec(Alias("a", TRUE), "Default"),
                 RuleSpec(Alias("b", FALSE), "Mask"),
                 RuleSpec(Multiple(<<"a", "@email">>, TRUE), "Remove")}
      [] id = "@email" ->
           {RuleSpec(Absent, "Default"), RuleSpec(RedactPair("("), "Remove")}

\* A rule table from the specification chosen for each id.
RuleTable(f) == [id \in {k \in RuleIds : f[k].ty.kind # "Absent"} |-> f[id]]

RuleTables ==
    {RuleTable("@email" :> e @@ "a" :> a @@ "b" :> b) :
        e \in SpecsOf("@email"), a \in SpecsOf("a"), b \in SpecsOf("b")}

Application(selector, rules) == [selector |-> selector, rules |-> rules]

\* config.applications: no selector, one selector with one or two rule
\* ids, or two selectors with one rule id each.
AppTables ==
    {<<>>}
    \cup {<<Application("$message", s)>> :
             s \in {<<"a">>, <<"a", "b">>, <<"b", "a">>, <<"@email", "a">>}}
    \cup {<<Application("$message", <<x>>), Application("$string", <<"a">>)>> :
             x \in {"a", "b"}}

Policies == {[applications |-> t, rules |-> r] : t \in AppTables, r \in RuleTables}

--------------------------------------------------------------------------
(* CompiledPiiConfig::new and collect_rules. *)

\* Recursion deeper than this repeats a rule id on the call path: with
\* one frame per id and one more, some wrapper is being expanded inside
\* its own expansion.
MaxDepth == Cardinality(RuleIds) + 1

NoHist == [id \in {} |-> <<>>]

\* A frame of collect_rules: its arguments rule_id and parent, and once
\* the rule is resolved (st = "loop") the local rule, the parent it hands
\* to its sub-rules and the index of the next sub-rule.
Frame(rule_id, parent) ==
    [rule_id |-> rule_id, parent |-> parent, st |-> "entry",
     rule |-> None, pass |-> None, idx |-> 1]

\* The ids of the call path, outermost first.
RECURSIVE CallPath(_)
CallPath(stk) ==
    IF stk = <<>> THEN <<>> ELSE CallPath(Tail(stk)) \o <<Head(stk).rule_id>>

InitFwdIdle ==
    /\ header_map = <<>>
    /\ peer_addr = <<>>
    /\ forwarded_ip = <<>>
    /\ forwarded = <<>>
    /\ fpc = "idle"

Init ==
    /\ config \in Policies
    /\ pc = "new"
    /\ sel = 0
    /\ app_idx = 1
    /\ rule_set = {}
    /\ via = NoHist
    /\ stack = <<>>
    /\ applications = <<>>
    /\ cursor = 1
    /\ result = Ok
    /\ InitFwdIdle

\* for (selector, rules) in &config.applications { let mut rule_set = ... }
BeginSelector ==
    /\ pc = "new"
    /\ stack = <<>>
    /\ Len(applications) = sel
    /\ sel < Len(config.applications)
    /\ sel' = sel + 1
    /\ app_idx' = 1
    /\ rule_set' = {}
    /\ via' = NoHist
    /\ UNCHANGED <<config, pc, stack, applications, cursor, result>>
    /\ UNCHANGED fwd_vars

\* for rule_id in rules { collect_rules(config, &mut rule_set, rule_id, None) }
CallTop ==
    /\ pc = "new"
    /\ stack = <<>>
    /\ sel >= 1
    /\ Len(applications) < sel
    /\ app_idx <= Len(config.applications[sel].rules)
    /\ stack' = <<Frame(config.applications[sel].rules[app_idx], None)>>
    /\ app_idx' = app_idx + 1
    /\ UNCHANGED <<config, pc, sel, rule_set, via, applications, cursor, result>>
    /\ UNCHANGED fwd_vars

\* collect_rules from its entry to its first recursive call or its return.
CollectRules ==
    /\ pc = "new"
    /\ stack # <<>>
    /\ Head(stack).st = "entry"
    /\ LET f == Head(stack)
           found == get_rule(config, f.rule_id)
       IN IF found = None
          THEN /\ stack' = Tail(stack)
               /\ UNCHANGED <<rule_set, via>>
          ELSE IF Contains(rule_set, found[1])
          THEN /\ stack' = Tail(stack)
               /\ UNCHANGED <<rule_set, via>>
          ELSE LET rule == IF f.parent # None
                           THEN for_parent(found[1], f.parent[1])
                           ELSE found[1]
               IN /\ rule_set' = Collected(rule_set, rule)
                  /\ via' = IF rule_set' # rule_set
                            THEN (rule.id :> CallPath(stack)) @@ via
                            ELSE via
                  /\ stack' = IF IsWrapper(rule.ty)
                              THEN <<[f EXCEPT !.st = "loop",
                                               !.rule = Some(rule),
                                               !.pass = IF rule.ty.hide_inner
                                                        THEN Some(rule)
                                                        ELSE None]>>
                                   \o Tail(stack)
                              ELSE Tail(stack)
    /\ UNCHANGED <<config, pc, sel, app_idx, applications, cursor, result>>
    /\ UNCHANGED fwd_vars

\* The recursive call of a Multiple (for each sub-rule, in order) or of
\* an Alias (its one sub-rule).
Recurse ==
    /\ pc = "new"
    /\ stack # <<>>
    /\ Head(stack).st = "loop"
    /\ Head(stack).idx <= Len(Head(stack).rule[1].ty.rules)
    /\ Len(stack) < MaxDepth
    /\ LET f == Head(stack)
       IN stack' = <<Frame(f.rule[1].ty.rules[f.idx], f.pass),
                     [f EXCEPT !.idx = f.idx + 1]>> \o Tail(stack)
    /\ UNCHANGED <<config, pc, sel, app_idx, rule_set, via, applications,
                   cursor, result>>
    /\ UNCHANGED fwd_vars

\* The recursion goes deeper than any acyclic rule graph allows: the call
\* never returns (the process overflows its stack).
Overflow ==
    /\ pc = "new"
    /\ stack # <<>>
    /\ Head(stack).st = "loop"
    /\ Head(stack).idx <= Len(Head(stack).rule[1].ty.rules)
    /\ Len(stack) >= MaxDepth
    /\ pc' = "overflow"
    /\ UNCHANGED <<config, sel, app_idx, rule_set, via, stack, applications,
                   cursor, result>>
    /\ UNCHANGED fwd_vars

\* The sub-rules are done: collect_rules returns.
Return ==
    /\ pc = "new"
    /\ stack # <<>>
    /\ Head(stack).st = "loop"
    /\ Head(stack).idx > Len(Head(stack).rule[1].ty.rules)
    /\ stack' = Tail(stack)
    /\ UNCHANGED <<config, pc, sel, app_idx, rule_set, via, applications,
                   cursor, result>>
    /\ UNCHANGED fwd_vars

\* applications.push((selector.clone(), rule_set))
PushApplication ==
    /\ pc = "new"
    /\ stack = <<>>
    /\ sel >= 1
    /\ Len(applications) < sel
    /\ app_idx > Len(config.applications[sel].rules)
    /\ applications' = Append(applications,
                              Application(config.applications[sel].selector, rule_set))
    /\ UNCHANGED <<config, pc, sel, app_idx, rule_set, via, stack, cursor, result>>
    /\ UNCHANGED fwd_vars

\* CompiledPiiConfig { applications }
Compiled ==
    /\ pc = "new"
    /\ stack = <<>>
    /\ Len(applications) = sel
    /\ sel = Len(config.applications)
    /\ pc' = "compiled"
    /\ UNCHANGED <<config, sel, app_idx, rule_set, via, stack, applications,
                   cursor, result>>
    /\ UNCHANGED fwd_vars

\* force_compile: one iteration of its loop; the first Err returns.
ForceCompileStep ==
    /\ pc = "compiled"
    /\ cursor <= Len(FlatRules(applications))
    /\ LET r == ForceCompileRule(FlatRules(applications)[cursor])
       IN IF r.ok
          THEN /\ cursor' = cursor + 1
               /\ UNCHANGED <<pc, result>>
          ELSE /\ result' = r
               /\ pc' = "validated"
               /\ UNCHANGED cursor
    /\ UNCHANGED <<config, sel, app_idx, rule_set, via, stack, applications>>
    /\ UNCHANGED fwd_vars

\* force_compile: the loop is over, Ok(()).
ForceCompileOk ==
    /\ pc = "compiled"
    /\ cursor > Len(FlatRules(applications))
    /\ result' = Ok
    /\ pc' = "validated"
    /\ UNCHANGED <<config, sel, app_idx, rule_set, via, stack, applications, cursor>>
    /\ UNCHANGED fwd_vars

Next ==
    \/ BeginSelector
    \/ CallTop
    \/ CollectRules
    \/ Recurse
    \/ Overflow
    \/ Return
    \/ PushApplication
    \/ Compiled
    \/ ForceCompileStep
    \/ ForceCompileOk

Spec == Init /\ [][Next]_vars

--------------------------------------------------------------------------
(* ForwardedFor: strings and header values are sequences of bytes. *)

\* Bytes a HeaderValue is built from here: '1', and 200, which a
\* HeaderValue may hold (obs-text) and which is not visible ASCII.
HeaderBytes == {49, 200}
HeaderValues == UNION {[1..n -> HeaderBytes] : n \in 0..MaxValueLen}

\* A peer address, as ip().to_string() gives it.
PeerAddrs == {<<>>, <<55>>}

\* Header names as written, and the lower-case form HeaderMap keys by.
HeaderNameOf ==
    ("X-Forwarded-For" :> "x-forwarded-for")
    @@ ("X-Vercel-Forwarded-For" :> "x-vercel-forwarded-for")
    @@ ("x-forwarded-for" :> "x-forwarded-for")
    @@ ("X-Invalid-Header" :> "x-invalid-header")

FORWARDED_HEADER == "X-Forwarded-For"
VERCEL_FORWARDED_HEADER == "X-Vercel-Forwarded-For"

\* HeaderMap::get
HeaderGet(hm, name) ==
    IF HeaderNameOf[name] \in DOMAIN hm THEN Some(hm[HeaderNameOf[name]]) ELSE None

\* HeaderValue::to_str(..).ok(): the value as a str when every byte is
\* visible ASCII (32..126) or a tab.
ToStr(v) ==
    IF \A i \in 1..Len(v) : (v[i] >= 32 /\ v[i] < 127) \/ v[i] = 9
    THEN Some(v)
    ELSE None

\* get_forwarded_for_ip converting each header before choosing: a
\* X-Vercel-Forwarded-For that is no str falls back on X-Forwarded-For.
get_forwarded_for_ip_fallback(hm) ==
    LET vercel == HeaderGet(hm, VERCEL_FORWARDED_HEADER)
        other == HeaderGet(hm, FORWARDED_HEADER)
        a == IF vercel # None THEN ToStr(vercel[1]) ELSE None
        b == IF other # None THEN ToStr(other[1]) ELSE None
    IN IF a # None THEN a[1] ELSE IF b # None THEN b[1] ELSE <<>>

\* ForwardedFor::get_forwarded_for_ip
get_forwarded_for_ip(hm) ==
    LET vercel == HeaderGet(hm, VERCEL_FORWARDED_HEADER)
        header == IF vercel # None THEN vercel ELSE HeaderGet(hm, FORWARDED_HEADER)
        str == IF header # None THEN ToStr(header[1]) ELSE None
    IN IF str # None THEN str[1] ELSE <<>>

InitPiiIdle ==
    /\ config = [applications |-> <<>>, rules |-> <<>>]
    /\ pc = "idle"
    /\ sel = 0
    /\ app_idx = 1
    /\ rule_set = {}
    /\ via = NoHist
    /\ stack = <<>>
    /\ applications = <<>>
    /\ cursor = 1
    /\ result = Ok

InitFwd ==
    /\ header_map = <<>>
    /\ peer_addr \in PeerAddrs
    /\ forwarded_ip = <<>>
    /\ forwarded = <<>>
    /\ fpc = "request"
    /\ InitPiiIdle

\* The request as it arrives: HeaderMap::insert of one more header.
InsertHeader ==
    /\ fpc = "request"
    /\ \E name \in DOMAIN HeaderNameOf, value \in HeaderValues :
          header_map' = (HeaderNameOf[name] :> value) @@ header_map
    /\ UNCHANGED <<peer_addr, forwarded_ip, forwarded, fpc>>
    /\ UNCHANGED pii_vars

\* ForwardedFor::from_request_parts
FromRequestParts ==
    /\ fpc = "request"
    /\ forwarded_ip' = get_forwarded_for_ip(header_map)
    /\ forwarded' = IF forwarded_ip' = <<>>
                    THEN peer_addr
                    ELSE IF peer_addr = <<>>
                         THEN forwarded_ip'
                         ELSE forwarded_ip' \o <<44, 32>> \o peer_addr
    /\ fpc' = "extracted"
    /\ UNCHANGED <<header_map, peer_addr>>
    /\ UNCHANGED pii_vars

NextFwd ==
    \/ InsertHeader
    \/ FromRequestParts

SpecFwd == InitFwd /\ [][NextFwd]_vars

--------------------------------------------------------------------------
(* Vocabulary of the properties: the rule graph of a policy, read off   *)
(* its tables and not off the run of collect_rules.                     *)

Range(s) == {s[i] : i \in 1..Len(s)}
Last(s) == s[Len(s)]
IdsOf(rules) == {r.id : r \in rules}

\* The specification an id resolves to, as a fresh RuleRef.
Resolved(cfg, id) == get_rule(cfg, id)[1]
Resolves(cfg, id) == get_rule(cfg, id) # None
Dangling(cfg, id) == ~Resolves(cfg, id) \/ Resolved(cfg, id).ty.kind = "Unknown"

\* The sub-rule ids of a wrapper, none for any other id.
SubRules(cfg, id) ==
    IF Resolves(cfg, id) /\ IsWrapper(Resolved(cfg, id).ty)
    THEN Range(Resolved(cfg, id).ty.rules)
    ELSE {}

\* The ids reachable from a set of ids through Alias/Multiple expansion.
RECURSIVE Reach(_, _)
Reach(cfg, S) ==
    LET n == S \cup UNION {SubRules(cfg, x) : x \in S}
    IN IF n = S THEN S ELSE Reach(cfg, n)

ReachableTerminals(cfg, list) ==
    {x \in Reach(cfg, Range(list)) : Resolves(cfg, x) /\ IsTerminal(Resolved(cfg, x).ty)}

\* A wrapper that reaches itself through sub-rule references.
OnCycle(cfg, id) == id \in Reach(cfg, SubRules(cfg, id))

HasReachableCycle(cfg) ==
    \E i \in 1..Len(cfg.applications) :
        \E x \in Reach(cfg, Range(cfg.applications[i].rules)) : OnCycle(cfg, x)

\* On a call path p1 .. pn (pn the rule inserted): the index where the
\* unbroken chain of hide_inner = true wrappers that encloses pn starts;
\* n itself when the wrapper next to pn does not hide, or there is none.
HideStart(cfg, path) ==
    CHOOSE k \in 1..Len(path) :
        /\ \A j \in k..(Len(path) - 1) : Resolved(cfg, path[j]).ty.hide_inner
        /\ \A m \in 1..(k - 1) :
              \E j \in m..(Len(path) - 1) : ~Resolved(cfg, path[j]).ty.hide_inner

\* The wrappers of that chain whose own redaction is concrete.
ConcreteInChain(cfg, path) ==
    {j \in HideStart(cfg, path)..(Len(path) - 1) :
        Resolved(cfg, path[j]).redaction # "Default"}

Min(S) == CHOOSE x \in S : \A y \in S : x <= y

ExpectedRedaction(cfg, path) ==
    IF ConcreteInChain(cfg, path) = {}
    THEN Resolved(cfg, Last(path)).redaction
    ELSE Resolved(cfg, path[Min(ConcreteInChain(cfg, path))]).redaction

ExpectedOrigin(cfg, path) == path[HideStart(cfg, path)]

--------------------------------------------------------------------------
(* The claims. *)

\* C1 (dedup by id): the set compiled for every selector holds exactly one
\* rule reference for each terminal rule id reachable from the selector's
\* top-level ids through Alias/Multiple expansion, and no reference with
\* any other id.
C1_DedupById ==
    \A i \in 1..Len(applications) :
        /\ IdsOf(applications[i].rules)
             = ReachableTerminals(config, config.applications[i].rules)
        /\ Cardinality(applications[i].rules)
             = Cardinality(IdsOf(applications[i].rules))

\* Two different top-level wrappers of one selector reach the same
\* terminal id, and the selector's set has been compiled.
C1_Witness ==
    /\ pc = "compiled"
    /\ \E i \in 1..Len(applications) :
          LET list == config.applications[i].rules
          IN /\ Len(list) = 2
             /\ list[1] # list[2]
             /\ \E t \in IdsOf(applications[i].rules) :
                   /\ t \in Reach(config, SubRules(config, list[1]))
                   /\ t \in Reach(config, SubRules(config, list[2]))

\* C2 (precedence): every rule resolved during compilation, at top level
\* or as a sub-rule at any depth, carries the type of the policy's own
\* specification when the policy's table defines its id, and the built-in
\* one only when the policy's table does not.
OwnSpec(cfg, id) ==
    IF id \in DOMAIN cfg.rules THEN cfg.rules[id] ELSE BUILTIN_RULES_MAP[id]

C2_Precedence ==
    /\ \A r \in rule_set : r.ty = OwnSpec(config, r.id).ty
    /\ \A i \in 1..Len(stack) :
          stack[i].st = "loop" =>
              stack[i].rule[1].ty = OwnSpec(config, stack[i].rule_id).ty
    /\ \A r \in rule_set :
          Len(via[r.id]) = 1 => r.redaction = OwnSpec(config, r.id).redaction

\* An id defined in both tables is inserted as a sub-rule two wrappers
\* deep, with the policy's type and not the built-in one.
C2_Witness ==
    \E r \in rule_set :
        /\ r.id \in DOMAIN config.rules
        /\ r.id \in DOMAIN BUILTIN_RULES_MAP
        /\ config.rules[r.id].ty # BUILTIN_RULES_MAP[r.id].ty
        /\ Len(via[r.id]) = 3
        /\ r.ty = config.rules[r.id].ty

\* C3 (redaction inheritance): a terminal rule inserted under an unbroken
\* chain of hide_inner = true wrappers has the redaction of the outermost
\* wrapper of the chain whose redaction is not Default, and its own
\* redaction when every wrapper of the chain has Default or the chain is
\* empty (the wrapper next to it has hide_inner = false).
C3_RedactionInheritance ==
    \A r \in rule_set : r.redaction = ExpectedRedaction(config, via[r.id])

\* A terminal with a concrete redaction under two hiding wrappers, the
\* outer one Default and the inner one concrete: the inner one's wins.
C3_Witness ==
    \E r \in rule_set :
        LET path == via[r.id]
        IN /\ Len(path) = 3
           /\ HideStart(config, path) = 1
           /\ Resolved(config, path[1]).redaction = "Default"
           /\ Resolved(config, path[2]).redaction # "Default"
           /\ Resolved(config, path[3]).redaction # "Default"
           /\ Resolved(config, path[3]).redaction # Resolved(config, path[2]).redaction
           /\ r.redaction = Resolved(config, path[2]).redaction

\* A terminal whose own redaction is concrete, inserted as the direct
\* sub-rule of a hide_inner = true wrapper with a concrete redaction.
WrappedConcrete(cfg, path) ==
    /\ Len(path) >= 2
    /\ Resolved(cfg, path[Len(path) - 1]).ty.hide_inner
    /\ Resolved(cfg, path[Len(path) - 1]).redaction # "Default"
    /\ Resolved(cfg, Last(path)).redaction # "Default"

\* C4 as stated (concrete redaction is preserved): such a terminal keeps
\* its own redaction under the wrapper.
C4_ConcretePreserved ==
    \A r \in rule_set :
        WrappedConcrete(config, via[r.id])
            => r.redaction = Resolved(config, Last(via[r.id])).redaction

\* C4 as amended: such a terminal takes the wrapper's redaction R; when
\* the wrapper is itself enclosed by hide_inner = true wrappers with a
\* concrete redaction, it takes the outermost of those instead.  Its own
\* redaction is never what decides.
C4_ConcreteOverridden ==
    \A r \in rule_set :
        LET path == via[r.id]
        IN WrappedConcrete(config, path) =>
              r.redaction
                = Resolved(config, path[Min(ConcreteInChain(config, path))]).redaction

\* A top-level hiding wrapper with redaction R over a terminal with
\* another concrete redaction: the reference has R.
C4_Witness ==
    \E r \in rule_set :
        LET path == via[r.id]
        IN /\ Len(path) = 2
           /\ WrappedConcrete(config, path)
           /\ Resolved(config, path[2]).redaction # Resolved(config, path[1]).redaction
           /\ r.redaction = Resolved(config, path[1]).redaction

\* C5 (origin override): a terminal T inserted as the sub-rule of wrapper
\* W has id T and origin W when W.hide_inner is true and origin T when it
\* is false; with nested wrappers the origin is the id of the outermost
\* wrapper of the unbroken chain of hide_inner = true wrappers enclosing T
\* on the call path that inserted it.
C5_OriginOverride ==
    \A r \in rule_set :
        /\ r.id = Last(via[r.id])
        /\ r.origin = ExpectedOrigin(config, via[r.id])

\* A terminal inserted under two hiding wrappers has the outer one's id
\* as origin.
C5_Witness ==
    \E r \in rule_set :
        LET path == via[r.id]
        IN /\ Len(path) = 3
           /\ Resolved(config, path[1]).ty.hide_inner
           /\ Resolved(config, path[2]).ty.hide_inner
           /\ path[1] # path[2]
           /\ r.origin = path[1]

\* C6 (unknown/dangling silence): a call of collect_rules on an id that
\* resolves to nothing, or to a specification of type Unknown, returns to
\* its caller with the accumulator, the compiled table and the driver's
\* position unchanged and no failure; and a terminal listed after such an
\* id, in the selector's list or in the enclosing Multiple, is compiled as
\* if the id were not there.
DanglingCall ==
    /\ pc = "new"
    /\ stack # <<>>
    /\ Head(stack).st = "entry"
    /\ Dangling(config, Head(stack).rule_id)

\* What a top-level rule list <<d, t>> or a top-level Multiple <<d, t>>
\* compiles to when d is dangling and t is a terminal: what <<t>> alone
\* compiles to.
SiblingCompiled(i) ==
    LET list == config.applications[i].rules
        w == Resolved(config, list[1])
    IN /\ (/\ Len(list) = 2
           /\ Dangling(config, list[1])
           /\ Resolves(config, list[2])
           /\ IsTerminal(Resolved(config, list[2]).ty))
              => applications[i].rules = {Resolved(config, list[2])}
       /\ (/\ Len(list) = 1
           /\ Resolves(config, list[1])
           /\ w.ty.kind = "Multiple"
           /\ Len(w.ty.rules) = 2
           /\ Dangling(config, w.ty.rules[1])
           /\ Resolves(config, w.ty.rules[2])
           /\ IsTerminal(Resolved(config, w.ty.rules[2]).ty))
              => applications[i].rules
                   = {IF w.ty.hide_inner
                      THEN for_parent(Resolved(config, w.ty.rules[2]), w)
                      ELSE Resolved(config, w.ty.rules[2])}

C6_DanglingSilence ==
    /\ [][DanglingCall =>
            /\ stack' = Tail(stack)
            /\ UNCHANGED <<rule_set, applications, sel, app_idx, pc, result>>]_vars
    /\ [](\A i \in 1..Len(applications) : SiblingCompiled(i))

\* A Multiple whose first sub-rule is of type Unknown and whose second is
\* a terminal has been compiled, and the terminal is in the set.
C6_Witness ==
    /\ pc = "compiled"
    /\ applications # <<>>
    /\ LET list == config.applications[1].rules
       IN /\ Len(list) = 1
          /\ Resolves(config, list[1])
          /\ Resolved(config, list[1]).ty.kind = "Multiple"
          /\ Len(Resolved(config, list[1]).ty.rules) = 2
          /\ Resolves(config, Resolved(config, list[1]).ty.rules[1])
          /\ Resolved(config, Resolved(config, list[1]).ty.rules[1]).ty.kind = "Unknown"
          /\ Resolved(config, list[1]).ty.rules[2] \in IdsOf(applications[1].rules)

\* A rule reference that embeds a pattern the regex engine rejects.
BadPattern(ty) ==
    /\ ty.kind \in {"Pattern", "RedactPair"}
    /\ ty.pattern \notin ValidPatterns

\* C7 as stated (validation fails closed): if the policy's rule table
\* defines a Pattern or RedactPair rule with an unparsable pattern,
\* force_compile returns an error.
C7_TableFailsClosed ==
    (/\ pc = "validated"
     /\ \E id \in DOMAIN config.rules : BadPattern(config.rules[id].ty))
        => ~result.ok

\* C7 as amended: force_compile fails exactly when some selector's
\* compiled set holds a Pattern or RedactPair reference with an unparsable
\* pattern (a rule of the table that no selector reaches is never
\* checked), and the error is that of the first such reference, selectors
\* in table order and references in ascending id order.
FirstBad(cfg) ==
    LET bad == {<<i, id>> \in (1..Len(cfg.applications)) \X RuleIds :
                   /\ id \in ReachableTerminals(cfg, cfg.applications[i].rules)
                   /\ BadPattern(Resolved(cfg, id).ty)}
    IN IF bad = {}
       THEN Ok
       ELSE LET first == CHOOSE x \in bad :
                            \A y \in bad :
                                \/ x[1] < y[1]
                                \/ (x[1] = y[1] /\ IdRank(x[2]) <= IdRank(y[2]))
            IN Err(Resolved(cfg, first[2]).ty.pattern)

C7_CompiledFailsClosed == pc = "validated" => result = FirstBad(config)

\* Validation failed on a selector whose set holds two unparsable
\* patterns, the one of the greater id inserted first.
C7_Witness ==
    /\ pc = "validated"
    /\ ~result.ok
    /\ Len(applications) = 1
    /\ config.applications[1].rules = <<"b", "a">>
    /\ Cardinality({r \in applications[1].rules : BadPattern(r.ty)}) = 2

\* C8 (termination): CompiledPiiConfig::new returns if and only if no
\* wrapper reachable from a selector's list lies on a cycle of sub-rule
\* references; the accumulator holds terminal rules only, so its guard
\* never stops the expansion of a wrapper.
C8_Termination ==
    /\ [](pc \in {"compiled", "validated"} => ~HasReachableCycle(config))
    /\ [](pc = "overflow" => HasReachableCycle(config))
    /\ [](\A r \in rule_set : IsTerminal(r.ty))
    /\ (pc = "new" /\ ~HasReachableCycle(config)) ~> (pc = "compiled")
    /\ (pc = "new" /\ HasReachableCycle(config)) ~> (pc = "overflow")

\* The recursion ran away on a cycle whose wrappers also reach a terminal
\* rule, which is in the accumulator.
C8_Witness ==
    /\ pc = "overflow"
    /\ rule_set # {}
    /\ \E x \in RuleIds : OnCycle(config, x) /\ ReachableTerminals(config, <<x>>) # {}

\* C10 (first reached wins): within one selector, a rule reference once
\* inserted stays in the accumulator unchanged and no second reference
\* with its id is inserted; a selector's set once pushed is not changed.
C10_FirstReachedWins ==
    [][/\ sel' = sel =>
             \A r \in rule_set :
                 /\ r \in rule_set'
                 /\ \A q \in rule_set' : q.id = r.id => q = r
       /\ \A i \in 1..Len(applications) :
             /\ i <= Len(applications')
             /\ applications'[i] = applications[i]]_vars

\* collect_rules is entered for an id already in the accumulator, along a
\* path that would give the reference another origin or redaction.
C10_Witness ==
    /\ pc = "new"
    /\ stack # <<>>
    /\ Head(stack).st = "entry"
    /\ Head(stack).parent # None
    /\ \E r \in rule_set :
          /\ r.id = Head(stack).rule_id
          /\ r # for_parent(Resolved(config, r.id), Head(stack).parent[1])

\* The policies whose wrappers all have redaction Default: the rule graphs
\* of Policies, without the redactions that have no part in termination.
GraphPolicies ==
    {p \in Policies :
        \A id \in DOMAIN p.rules :
            IsWrapper(p.rules[id].ty) => p.rules[id].redaction = "Default"}

InitGraph ==
    /\ config \in GraphPolicies
    /\ pc = "new"
    /\ sel = 0
    /\ app_idx = 1
    /\ rule_set = {}
    /\ via = NoHist
    /\ stack = <<>>
    /\ applications = <<>>
    /\ cursor = 1
    /\ result = Ok
    /\ InitFwdIdle

\* The compiler runs on one thread to its end: every step that can be
\* taken is taken.
FairSpec == InitGraph /\ [][Next]_vars /\ WF_vars(Next)

--------------------------------------------------------------------------
(* The claim about ForwardedFor. *)

\* C9 as stated (header selection): get_forwarded_for_ip returns the
\* value of X-Vercel-Forwarded-For whenever that header is present,
\* otherwise the value of X-Forwarded-For when that one is present, and
\* the empty string when neither is.
C9_HeaderSelection ==
    fpc = "extracted" =>
        forwarded_ip =
            IF "x-vercel-forwarded-for" \in DOMAIN header_map
            THEN header_map["x-vercel-forwarded-for"]
            ELSE IF "x-forwarded-for" \in DOMAIN header_map
                 THEN header_map["x-forwarded-for"]
                 ELSE <<>>

VisibleAscii(v) == \A i \in 1..Len(v) : v[i] \in (32..126) \cup {9}

\* C9 as amended: the header selected is X-Vercel-Forwarded-For when
\* present, otherwise X-Forwarded-For when present; the result is that
\* header's value when the value is visible ASCII, and the empty string
\* when it is not (with no fall back from X-Vercel-Forwarded-For to
\* X-Forwarded-For) or when neither header is present.  No other header
\* has a part in it.
C9_HeaderSelectionVisible ==
    fpc = "extracted" =>
        forwarded_ip =
            IF "x-vercel-forwarded-for" \in DOMAIN header_map
            THEN IF VisibleAscii(header_map["x-vercel-forwarded-for"])
                 THEN header_map["x-vercel-forwarded-for"]
                 ELSE <<>>
            ELSE IF "x-forwarded-for" \in DOMAIN header_map
                 THEN IF VisibleAscii(header_map["x-forwarded-for"])
                      THEN header_map["x-forwarded-for"]
                      ELSE <<>>
                 ELSE <<>>

\* Both headers present, a byte of X-Vercel-Forwarded-For not visible
\* ASCII, X-Forwarded-For a plain address: the result is empty.
C9_Witness ==
    /\ fpc = "extracted"
    /\ "x-vercel-forwarded-for" \in DOMAIN header_map
    /\ "x-forwarded-for" \in DOMAIN header_map
    /\ "x-invalid-header" \in DOMAIN header_map
    /\ ~VisibleAscii(header_map["x-vercel-forwarded-for"])
    /\ header_map["x-forwarded-for"] = <<49>>
    /\ forwarded_ip = <<>>

==========================================================================
